---- MODULE Spec2Model ----
(***************************************************************************)
(* A model of src/src/misc.cpp: the five numeric helpers scale_rows,       *)
(* softmax, safenormalize, crossprod and ldmvnorm.                         *)
(*                                                                         *)
(* Doubles are modelled by exact values: integers where the code only      *)
(* adds and multiplies integers, normalised fractions <<num, den>> where   *)
(* it divides, and symbolic terms for exp and log.  Rounding is not        *)
(* modelled; overflow and underflow of exp, log of a non-positive number   *)
(* and the C++ integer division are.                                       *)
(*                                                                         *)
(* A behaviour is one call: Init draws the function and its arguments,     *)
(* the action of that function runs its body once.                         *)
(***************************************************************************)
EXTENDS Integers, Sequences, FiniteSets

VARIABLES pc, fn, A, v, A0, v0, ret, divzero

vars == <<pc, fn, A, v, A0, v0, ret, divzero>>

(***************************************************************************)
(* Bounds of the model.                                                    *)
(***************************************************************************)
MaxRows == 2
MaxCols == 2
MaxLen == 3
MaxNorm == 4
MaxDim == 2

(***************************************************************************)
(* Exact arithmetic standing for double arithmetic.                        *)
(***************************************************************************)
Abs(a) == IF a < 0 THEN -a ELSE a

RECURSIVE GCD(_, _)
GCD(a, b) == IF b = 0 THEN a ELSE GCD(b, a % b)

\* The fraction n/d (d # 0) in lowest terms with a positive denominator.
Rat(n, d) ==
  LET s == IF d < 0 THEN -1 ELSE 1
      g == GCD(Abs(n), Abs(d))
  IN  <<(s * n) \div g, (s * d) \div g>>

RAdd(p, q) == Rat(p[1] * q[2] + q[1] * p[2], p[2] * q[2])
RMul(p, q) == Rat(p[1] * q[1], p[2] * q[2])
RDiv(p, q) == Rat(p[1] * q[2], p[2] * q[1])
RLeq(p, q) == p[1] * q[2] <= q[1] * p[2]
RZero == <<0, 1>>
ROne == <<1, 1>>

RECURSIVE SumSeq(_)
SumSeq(s) == IF s = <<>> THEN 0 ELSE s[1] + SumSeq(Tail(s))

RECURSIVE RSumSeq(_)
RSumSeq(s) == IF s = <<>> THEN RZero ELSE RAdd(s[1], RSumSeq(Tail(s)))

(***************************************************************************)
(* arma::mat as a record: nr rows, nc columns, entries e[<<i, j>>].        *)
(* arma::vec and arma::rowvec are sequences.                               *)
(***************************************************************************)
Mat(m, n, f) == [nr |-> m, nc |-> n, e |-> f]

Mats(m, n, V) == {Mat(m, n, f) : f \in [(1..m) \X (1..n) -> V]}

Vecs(n, V) == [1..n -> V]

NoMat == Mat(0, 0, <<>>)
NoRet == [t |-> "none"]

\* trans(X)
trans(X) == Mat(X.nc, X.nr, [p \in (1..X.nc) \X (1..X.nr) |-> X.e[<<p[2], p[1]>>]])

\* P * Q for conforming P (m x k) and Q (k x n); an empty sum is 0.
MatMul(P, Q) ==
  Mat(P.nr, Q.nc,
      [p \in (1..P.nr) \X (1..Q.nc) |->
         SumSeq([k \in 1..P.nc |-> P.e[<<p[1], k>>] * Q.e[<<k, p[2]>>]])])

(***************************************************************************)
(* The build's Armadillo configuration: with run-time checks (the          *)
(* default) a size mismatch throws std::logic_error; with ARMA_NO_DEBUG    *)
(* the operation runs unchecked.  The header and build flags that decide   *)
(* are not part of the source file; the specification calls the behaviour  *)
(* on a shape mismatch undefined.                                          *)
(***************************************************************************)
ArmaChecks == BOOLEAN

\* What an out-of-bounds read of a vector's memory may yield.
Garbage == {0, 5}

(***************************************************************************)
(* scale_rows (lines 8-11)                                                 *)
(***************************************************************************)
\* A faulty variant of each_col_schur: += in place of %=.
each_col_schur_add(M, c) ==
  Mat(M.nr, M.nc, [p \in (1..M.nr) \X (1..M.nc) |-> M.e[p] + c[p[1]]])

\* A.each_col() %= c where c has at least A.nr readable entries.
each_col_schur(M, c) ==
  Mat(M.nr, M.nc, [p \in (1..M.nr) \X (1..M.nc) |-> M.e[p] * c[p[1]]])

\* The body of scale_rows on conforming arguments: the new value of A.
scale_rows(M, b) ==
  LET c == b
  IN  each_col_schur(M, c)

\* Unchecked, each column reads A.nr entries of c's memory: entries past
\* the end of c are whatever is there (g), entries of c past A.nr are unread.
scale_rows_unchecked(M, b, g) ==
  LET c == [i \in 1..M.nr |-> IF i <= Len(b) THEN b[i] ELSE g]
  IN  each_col_schur(M, c)

(***************************************************************************)
(* safenormalize (lines 25-31)                                             *)
(***************************************************************************)
\* 1/n at line 28: both operands are integers (n is unsigned int), so the
\* division is C++ integer division, converted to double by fill.
unsigned_div(a, n) == Rat(a \div n, 1)

\* A faulty variant of safenormalize: divides by n in place of sum(x).
safenormalize_mean(x) ==
  LET n == Len(x)
  IN  IF RLeq(RSumSeq(x), RZero)
        THEN [i \in 1..n |-> unsigned_div(1, n)]
        ELSE [i \in 1..n |-> RDiv(x[i], Rat(n, 1))]

\* The body of safenormalize for n >= 1: the new value of x.
safenormalize(x) ==
  LET n == Len(x)
  IN  IF RLeq(RSumSeq(x), RZero)
        THEN [i \in 1..n |-> unsigned_div(1, n)]
        ELSE [i \in 1..n |-> RDiv(x[i], RSumSeq(x))]

\* The divisor the call evaluates: n at line 28, the numerator of sum(x)
\* (zero exactly when sum(x) is) at line 30.
safenormalize_divisor(x) ==
  IF RLeq(RSumSeq(x), RZero) THEN Len(x) ELSE RSumSeq(x)[1]

(***************************************************************************)
(* crossprod (lines 34-36)                                                 *)
(***************************************************************************)
\* A faulty variant of crossprod: X*X' in place of X'*X.
tcrossprod(X) == MatMul(X, trans(X))

\* trans(X) * X
crossprod(X) == MatMul(trans(X), X)

(***************************************************************************)
(* softmax (lines 16-20)                                                   *)
(*                                                                         *)
(* exp(k) for an integer k is the symbolic power e^k, or what a double     *)
(* gives outside its range: +Inf above 709, 0 below -745.  A sum of        *)
(* powers is a polynomial in e (exponent -> count); a quotient of a power  *)
(* by a polynomial is kept with the polynomial's largest exponent          *)
(* shifted to 0, so that equal values have equal representations.          *)
(***************************************************************************)
Pow(k) == [t |-> "pow", k |-> k]
Inf == [t |-> "inf"]
Zero == [t |-> "zero"]
NaN == [t |-> "nan"]
Frac(k, den) == [t |-> "frac", num |-> k, den |-> den]

exp(k) == IF k > 709 THEN Inf ELSE IF k < -745 THEN Zero ELSE Pow(k)

\* max(x) of a non-empty vector
max(x) == CHOOSE m \in {x[i] : i \in 1..Len(x)} : \A i \in 1..Len(x) : x[i] <= m

\* A faulty variant of centered: max(x) is not subtracted.
uncentered(x) == x

\* x - max(x)

centered(x) == [i \in 1..Len(x) |-> x[i] - max(x)]

\* sum(y) of a vector of exp values: Inf, or exponent -> number of terms
sum_exp(y) ==
  IF \E i \in 1..Len(y) : y[i].t = "inf"
    THEN Inf
    ELSE LET I == {i \in 1..Len(y) : y[i].t = "pow"}
         IN  [t |-> "poly",
              c |-> [k \in {y[i].k : i \in I} |-> Cardinality({i \in I : y[i].k = k})]]

MaxOf(S) == CHOOSE m \in S : \A k \in S : k <= m

\* a / s for an exp value a and a sum s (IEEE: Inf/Inf and 0/0 are NaN)
div_exp(a, s) ==
  IF s.t = "inf"
    THEN IF a.t = "inf" THEN NaN ELSE Zero
    ELSE IF DOMAIN s.c = {}
      THEN IF a.t = "zero" THEN NaN ELSE Inf
      ELSE IF a.t = "inf" THEN Inf
      ELSE IF a.t = "zero" THEN Zero
      ELSE LET m == MaxOf(DOMAIN s.c)
           IN  Frac(a.k - m, [k \in {j - m : j \in DOMAIN s.c} |-> s.c[k + m]])

\* A faulty variant of softmax: without y /= sum(y).
softmax_unnormalized(x) ==
  LET c == centered(x)
  IN  [i \in 1..Len(x) |-> exp(c[i])]

\* The body of softmax: the returned vector y.
softmax(x) ==
  LET c == centered(x)
      y == [i \in 1..Len(x) |-> exp(c[i])]
      s == sum_exp(y)
  IN  [i \in 1..Len(x) |-> div_exp(y[i], s)]

(***************************************************************************)
(* ldmvnorm (lines 41-44)                                                  *)
(***************************************************************************)
\* M without its first row and its j-th column
Minor(M, j) ==
  Mat(M.nr - 1, M.nc - 1,
      [p \in (1..(M.nr - 1)) \X (1..(M.nc - 1)) |->
         M.e[<<p[1] + 1, IF p[2] < j THEN p[2] ELSE p[2] + 1>>]])

RECURSIVE Det(_)
Det(M) ==
  IF M.nr = 0
    THEN 1
    ELSE SumSeq([j \in 1..M.nc |->
                   (IF j % 2 = 1 THEN 1 ELSE -1) * M.e[<<1, j>>] * Det(Minor(M, j))])

ReplaceCol(M, j, x) ==
  Mat(M.nr, M.nc, [p \in (1..M.nr) \X (1..M.nc) |-> IF p[2] = j THEN x[p[1]] ELSE M.e[p]])

\* solve(L, x) for a non-singular square L: the z with L*z = x (Cramer's rule)
solve(L, x) == [i \in 1..L.nr |-> Rat(Det(ReplaceCol(L, i, x)), Det(L))]

\* norm(z, 2) squared: d*d at line 43
norm2sq(z) == RSumSeq([i \in 1..Len(z) |-> RMul(z[i], z[i])])

\* L.diag()
diag(L) == [i \in 1..L.nr |-> L.e[<<i, i>>]]

\* The value -hq - sum_i log(sqrt(2*pi) * logs[i]), all logs[i] > 0
Val(hq, logs) == [t |-> "val", hq |-> hq, logs |-> logs]

\* A faulty variant of ldmvnorm: solves with trans(L) in place of L.
ldmvnorm_trans(x, L) ==
  LET dd == norm2sq(solve(trans(L), x))
      dg == diag(L)
  IN  IF \E i \in 1..L.nr : dg[i] < 0 THEN NaN
      ELSE IF \E i \in 1..L.nr : dg[i] = 0 THEN Inf
      ELSE Val(RDiv(dd, Rat(2, 1)), dg)

\* The body of ldmvnorm on conforming arguments with L non-singular.
\* log of a negative number is NaN; log(0) is -Inf, so the result is +Inf.
ldmvnorm(x, L) ==
  LET dd == norm2sq(solve(L, x))
      dg == diag(L)
  IN  IF \E i \in 1..L.nr : dg[i] < 0 THEN NaN
      ELSE IF \E i \in 1..L.nr : dg[i] = 0 THEN Inf
      ELSE Val(RDiv(dd, Rat(2, 1)), dg)

(***************************************************************************)
(* The calls: which function, with which arguments.                        *)
(***************************************************************************)
ExampleA == Mat(2, 2, [p \in (1..2) \X (1..2) |-> 2 * (p[1] - 1) + p[2]])

ScaleRowsCalls ==
  /\ fn = "scale_rows"
  /\ \/ A = ExampleA /\ v \in {<<1, 2>>, <<1, 2, 3>>}
     \/ /\ \E m \in 0..MaxRows, n \in 1..MaxCols : A \in Mats(m, n, {-1, 2})
        /\ \E l \in 0..(MaxRows + 1) : v \in Vecs(l, {0, 3})

SoftmaxCalls ==
  /\ fn = "softmax"
  /\ A = NoMat
  /\ \/ \E l \in 1..MaxLen : v \in Vecs(l, {-1000, 0, 1, 1000})
     \/ v \in {<<1000, 1001, 999>>, <<-1000, -1001, -999>>}

Shifts == {-1000, 1, 1000}

SafeNormalizeCalls ==
  /\ fn = "safenormalize"
  /\ A = NoMat
  /\ \E l \in 0..MaxNorm :
       \E x \in Vecs(l, {-1, 0, 1, 2, 3, 4}) : v = [i \in 1..l |-> Rat(x[i], 1)]

CrossprodCalls ==
  /\ fn = "crossprod"
  /\ \E m \in 0..MaxRows, n \in 1..MaxCols : A \in Mats(m, n, {-1, 0, 2})
  /\ v = <<>>

\* Square matrices: diagonal in {-1, 0, 1, 2}, off the diagonal in {0, 1};
\* the non-singular ones (solve finds no solution for a singular matrix).
Factors(n) ==
  LET off == {p \in (1..n) \X (1..n) : p[1] # p[2]}
      all == {Mat(n, n, [p \in (1..n) \X (1..n) |->
                           IF p[1] = p[2] THEN d[p[1]] ELSE o[p]]) :
                d \in [1..n -> {-1, 0, 1, 2}], o \in [off -> {0, 1}]}
  IN  {L \in all : Det(L) # 0}

LdmvnormCalls ==
  /\ fn = "ldmvnorm"
  /\ \E n \in 1..MaxDim :
       /\ A \in Factors(n)
       /\ \/ v \in Vecs(n, {-1, 2})
          \/ v \in Vecs(n - 1, {2})
          \/ v \in Vecs(n + 1, {2})

Init ==
  /\ pc = "call"
  /\ \/ ScaleRowsCalls
     \/ SoftmaxCalls
     \/ SafeNormalizeCalls
     \/ CrossprodCalls
     \/ LdmvnormCalls
  /\ A0 = A
  /\ v0 = v
  /\ ret = NoRet
  /\ divzero = FALSE

(***************************************************************************)
(* One action per function: the whole call.                                *)
(***************************************************************************)
ScaleRows ==
  /\ pc = "call" /\ fn = "scale_rows"
  /\ \/ /\ Len(v) = A.nr
        /\ A' = scale_rows(A, v)
        /\ pc' = "done"
     \/ /\ Len(v) # A.nr
        /\ \E checks \in ArmaChecks :
             IF checks
               THEN A' = A /\ pc' = "error"
               ELSE /\ \E g \in Garbage : A' = scale_rows_unchecked(A, v, g)
                    /\ pc' = "done"
  /\ UNCHANGED <<fn, v, A0, v0, ret, divzero>>

Softmax ==
  /\ pc = "call" /\ fn = "softmax"
  /\ ret' = softmax(v)
  /\ pc' = "done"
  /\ UNCHANGED <<fn, A, v, A0, v0, divzero>>

\* With n = 0 the sum is 0, so 1/n is evaluated with n = 0: an integer
\* division by zero, which traps or yields any value; fill then writes
\* nothing to the empty vector.
SafeNormalize ==
  /\ pc = "call" /\ fn = "safenormalize"
  /\ LET divisor == safenormalize_divisor(v)
     IN  /\ divzero' = (divisor = 0)
         /\ IF divisor = 0
              THEN v' = v /\ pc' \in {"done", "crash"}
              ELSE v' = safenormalize(v) /\ pc' = "done"
  /\ UNCHANGED <<fn, A, A0, v0, ret>>

Crossprod ==
  /\ pc = "call" /\ fn = "crossprod"
  /\ ret' = crossprod(A)
  /\ pc' = "done"
  /\ UNCHANGED <<fn, A, v, A0, v0, divzero>>

\* Unchecked, solve reads L.nr entries of x's memory.
Ldmvnorm ==
  /\ pc = "call" /\ fn = "ldmvnorm"
  /\ \/ /\ Len(v) = A.nr
        /\ ret' = ldmvnorm(v, A)
        /\ pc' = "done"
     \/ /\ Len(v) # A.nr
        /\ \E checks \in ArmaChecks :
             IF checks
               THEN ret' = ret /\ pc' = "error"
               ELSE /\ \E g \in Garbage :
                         ret' = ldmvnorm([i \in 1..A.nr |-> IF i <= Len(v) THEN v[i] ELSE g], A)
                    /\ pc' = "done"
  /\ UNCHANGED <<fn, A, v, A0, v0, divzero>>

Next == ScaleRows \/ Softmax \/ SafeNormalize \/ Crossprod \/ Ldmvnorm

Spec == Init /\ [][Next]_vars

(***************************************************************************)
(* The claims.                                                             *)
(***************************************************************************)
Done(f) == fn = f /\ pc = "done"

RatVec(x) == [i \in 1..Len(x) |-> Rat(x[i], 1)]

Idx(M) == (1..M.nr) \X (1..M.nc)

\* C1: safenormalize of an all-zero vector of length n >= 1 leaves every
\* entry equal to 1/n.
C1_ZeroVectorBecomesUniform ==
  (/\ Done("safenormalize")
   /\ Len(v0) >= 1
   /\ \A i \in 1..Len(v0) : v0[i] = RZero)
  => /\ Len(v) = Len(v0)
     /\ \A i \in 1..Len(v) : v[i] = Rat(1, Len(v0))

\* C2: safenormalize of a nonnegative vector with a positive sum replaces
\* each entry by x[i]/sum(x) of the original entries: the entries then sum
\* to 1 and keep their ratios.
C2_NormalizesProportionally ==
  (/\ Done("safenormalize")
   /\ \A i \in 1..Len(v0) : RLeq(RZero, v0[i])
   /\ ~RLeq(RSumSeq(v0), RZero))
  => /\ Len(v) = Len(v0)
     /\ RSumSeq(v) = ROne
     /\ \A i \in 1..Len(v) : RMul(v[i], RSumSeq(v0)) = v0[i]
     /\ \A i, j \in 1..Len(v) : RMul(v[i], v0[j]) = RMul(v[j], v0[i])

C2_Witness ==
  /\ Done("safenormalize")
  /\ v0 = RatVec(<<1, 2, 3, 4>>)
  /\ v = <<Rat(1, 10), Rat(2, 10), Rat(3, 10), Rat(4, 10)>>

\* C3: scale_rows(A, b) with len(b) = rows(A) leaves A[i][j] = b[i] * A[i][j]
\* for all i, j, keeps the shape of A and leaves b unchanged.
C3_ScalesEachRow ==
  (Done("scale_rows") /\ Len(v0) = A0.nr)
  => /\ A.nr = A0.nr /\ A.nc = A0.nc
     /\ DOMAIN A.e = Idx(A0)
     /\ \A p \in Idx(A0) : A.e[p] = v0[p[1]] * A0.e[p]
     /\ v = v0

C3_Witness ==
  /\ Done("scale_rows")
  /\ A0 = ExampleA /\ v0 = <<1, 2>>
  /\ A.e[<<1, 1>>] = 1 /\ A.e[<<1, 2>>] = 2
  /\ A.e[<<2, 1>>] = 6 /\ A.e[<<2, 2>>] = 8

\* The polynomial (exponent -> number of terms) of the exponents ks[i], i in I.
CountPoly(ks, I) ==
  [k \in {ks[i] : i \in I} |-> Cardinality({i \in I : ks[i] = k})]

\* C4: softmax(x) of a non-empty x returns a vector y of the same length
\* with y[i] = exp(x[i] - max(x)) / sum_j exp(x[j] - max(x)): every entry is
\* in [0, 1] (0, or a power of e over a sum that contains that power), the
\* entries sum to 1 (the numerators add up to the common denominator), and
\* x is not modified.
C4_SoftmaxIsDistribution ==
  Done("softmax")
  => LET n == Len(v0)
         m == CHOOSE a \in {v0[i] : i \in 1..n} : \A i \in 1..n : v0[i] <= a
         I == {i \in 1..n : v0[i] - m >= -745}
         P == CountPoly([i \in 1..n |-> v0[i] - m], I)
     IN  /\ v = v0
         /\ Len(ret) = n
         /\ \A i \in 1..n :
              IF i \in I
                THEN /\ ret[i] = Frac(v0[i] - m, P)
                     /\ ret[i].num \in DOMAIN ret[i].den
                     /\ ret[i].den[ret[i].num] >= 1
                ELSE ret[i] = Zero
         /\ I # {}
         /\ CountPoly([i \in 1..n |-> IF i \in I THEN ret[i].num ELSE 0], I) = P

C4_Witness ==
  /\ Done("softmax")
  /\ v0 = <<1000, 1001, 999>>
  /\ ret = <<Frac(-1, [k \in {-2, -1, 0} |-> 1]),
             Frac(0, [k \in {-2, -1, 0} |-> 1]),
             Frac(-2, [k \in {-2, -1, 0} |-> 1])>>

\* C5: softmax(x + c) = softmax(x) for every constant c added to every
\* entry of x.
C5_SoftmaxShiftInvariant ==
  Done("softmax")
  => \A c \in Shifts : softmax([i \in 1..Len(v0) |-> v0[i] + c]) = ret

C5_Witness ==
  /\ Done("softmax")
  /\ v0 = <<-1000, 0, 1>>
  /\ ret = <<Zero, Frac(-1, [k \in {-1, 0} |-> 1]), Frac(0, [k \in {-1, 0} |-> 1])>>
  /\ softmax(<<0, 1000, 1001>>) = ret

\* C6: crossprod(X) of an m x n matrix X (m = 0 included) returns the n x n
\* matrix M with M[i][j] = sum_k X[k][i] * X[k][j], which is symmetric and
\* all zero when X has no rows; no error is raised and X is not modified.
C6_CrossprodIsGram ==
  (fn = "crossprod" /\ pc # "call")
  => /\ pc = "done"
     /\ A = A0
     /\ ret.nr = A0.nc /\ ret.nc = A0.nc
     /\ DOMAIN ret.e = (1..A0.nc) \X (1..A0.nc)
     /\ \A p \in (1..A0.nc) \X (1..A0.nc) :
          /\ ret.e[p] = SumSeq([k \in 1..A0.nr |-> A0.e[<<k, p[1]>>] * A0.e[<<k, p[2]>>]])
          /\ ret.e[p] = ret.e[<<p[2], p[1]>>]
          /\ A0.nr = 0 => ret.e[p] = 0

C6_Witness ==
  /\ Done("crossprod")
  /\ A0.nr = 2 /\ A0.nc = 2
  /\ A0.e[<<1, 1>>] = -1 /\ A0.e[<<1, 2>>] = 2
  /\ A0.e[<<2, 1>>] = 0 /\ A0.e[<<2, 2>>] = 2
  /\ ret.e[<<1, 1>>] = 1 /\ ret.e[<<1, 2>>] = -2
  /\ ret.e[<<2, 1>>] = -2 /\ ret.e[<<2, 2>>] = 8

LowerTriangular(L) == \A p \in Idx(L) : p[1] < p[2] => L.e[p] = 0

PositiveDiagonal(L) == \A i \in 1..L.nr : L.e[<<i, i>>] > 0

\* M * z for an integer matrix M and a vector z of fractions
RMatVec(M, z) ==
  [i \in 1..M.nr |-> RSumSeq([k \in 1..M.nc |-> RMul(Rat(M.e[<<i, k>>], 1), z[k])])]

RDot(x, y) == RSumSeq([i \in 1..Len(x) |-> RMul(x[i], y[i])])

RECURSIVE Product(_)
Product(s) == IF s = <<>> THEN 1 ELSE s[1] * Product(Tail(s))

\* C7: for a lower-triangular L with positive diagonal and x of length n,
\* ldmvnorm(x, L) returns -1/2 * |z|^2 - sum_i log(sqrt(2*pi) * L[i][i])
\* with L*z = x, which is the closed form
\* -1/2 * (n*log(2*pi) + log det S + x' S^-1 x), S = L*L': the quadratic
\* forms agree (|z|^2 = x'w with S*w = x) and det S = (prod_i L[i][i])^2.
C7_LogDensityClosedForm ==
  (/\ Done("ldmvnorm")
   /\ Len(v0) = A0.nr
   /\ LowerTriangular(A0) /\ PositiveDiagonal(A0))
  => LET x == RatVec(v0)
         S == MatMul(A0, trans(A0))
         z == [i \in 1..A0.nr |-> Rat(Det(ReplaceCol(A0, i, v0)), Det(A0))]
         w == [i \in 1..A0.nr |-> Rat(Det(ReplaceCol(S, i, v0)), Det(S))]
     IN  /\ RMatVec(A0, z) = x
         /\ RMatVec(S, w) = x
         /\ ret.t = "val"
         /\ RMul(Rat(2, 1), ret.hq) = RDot(z, z)
         /\ ret.logs = [i \in 1..A0.nr |-> A0.e[<<i, i>>]]
         /\ RMul(Rat(2, 1), ret.hq) = RDot(x, w)
         /\ Len(ret.logs) = A0.nr
         /\ Product(ret.logs) * Product(ret.logs) = Det(S)

C7_Witness ==
  /\ Done("ldmvnorm")
  /\ v0 = <<2, -1>>
  /\ A0.nr = 2
  /\ A0.e[<<1, 1>>] = 1 /\ A0.e[<<1, 2>>] = 0
  /\ A0.e[<<2, 1>>] = 1 /\ A0.e[<<2, 2>>] = 2
  /\ ret = Val(Rat(25, 8), <<1, 2>>)

\* C8: a call whose argument dimensions disagree (scale_rows with
\* len(b) # rows(A), ldmvnorm with len(x) # dimension of L) ends in an
\* error, and scale_rows leaves A unchanged.
C8_ShapeMismatchIsAnError ==
  (/\ fn \in {"scale_rows", "ldmvnorm"}
   /\ pc # "call"
   /\ Len(v0) # A0.nr)
  => pc = "error" /\ A = A0 /\ ret = NoRet

\* C9: ldmvnorm with an L that is not a valid Cholesky factor (a diagonal
\* entry <= 0, or a non-zero entry above the diagonal) fails with an error
\* instead of returning a value.
C9_InvalidFactorIsAnError ==
  (/\ fn = "ldmvnorm"
   /\ pc # "call"
   /\ Len(v0) = A0.nr
   /\ ~(LowerTriangular(A0) /\ PositiveDiagonal(A0)))
  => pc = "error" /\ ret = NoRet

\* C10: safenormalize never evaluates a division whose divisor is zero,
\* the empty vector included.
C10_NoZeroDivisor ==
  fn = "safenormalize" => ~divzero

====
